---- MODULE Spec2Model ----
(***************************************************************************)
(* A model of the proglog commit-log storage engine: the framed Store,     *)
(* the memory-mapped Index, the Segment that pairs them and the Log that   *)
(* owns a directory of segments.  Files are modelled as byte sequences,    *)
(* the big-endian encodings as what they write.                            *)
(***************************************************************************)
EXTENDS Integers, Sequences, FiniteSets, TLC

\* ------------------------------------------------------------------------
\* Bounds of the model
\* ------------------------------------------------------------------------
MaxEntries == 3
MaxAppends == 2
MaxSegAppends == 4
MaxOffset == 3
\* the appends to a Store on its own
MaxStoreAppends == 2
MaxRequests == 3

\* ------------------------------------------------------------------------
\* Option<T>: None is the empty sequence, Some(x) the one-element sequence
\* ------------------------------------------------------------------------
None == <<>>
Some(x) == <<x>>
IsSome(o) == Len(o) = 1
IsNone(o) == Len(o) = 0
Unwrap(o) == o[1]

\* ------------------------------------------------------------------------
\* Bytes and the byteorder::BigEndian conversions
\* ------------------------------------------------------------------------
Zeros(n) == [i \in 1..n |-> 0]

\* BigEndian::write_u32
WriteU32(n) ==
    << (n \div 16777216) % 256, (n \div 65536) % 256, (n \div 256) % 256, n % 256 >>

\* BigEndian::write_u64 / WriteBytesExt::write_u64::<BigEndian>
WriteU64(n) == WriteU32((n \div 65536) \div 65536) \o WriteU32(n)

\* BigEndian::read_u32 / read_u64: the most significant byte comes first
RECURSIVE ReadBE(_)
ReadBE(b) ==
    IF Len(b) = 0 THEN 0 ELSE ReadBE(SubSeq(b, 1, Len(b) - 1)) * 256 + b[Len(b)]

\* An i64 argument as its eight two's-complement bytes, most significant first
I64(n) == WriteU64(n)
MinusOne == [i \in 1..8 |-> 255]
\* 2^32 + n, for 0 <= n < 2^32
I64High(n) == <<0, 0, 0, 1>> \o WriteU32(n)
\* `inp as u32`: the cast keeps the low 32 bits
AsU32(inp) == ReadBE(SubSeq(inp, 5, 8))
\* inp >= n, for a small natural n and inp other than a negative number
I64AtLeast(inp, n) ==
    /\ inp[1] < 128
    /\ \/ \E i \in 1..4 : inp[i] # 0
       \/ AsU32(inp) >= n

\* File::set_len: cut, or extend with zero bytes
SetLen(f, n) == IF n <= Len(f) THEN SubSeq(f, 1, n) ELSE f \o Zeros(n - Len(f))

\* bytes written at byte position at (0-based) of f, within its length
Splice(f, at, bytes) ==
    [i \in 1..Len(f) |-> IF i > at /\ i <= at + Len(bytes) THEN bytes[i - at] ELSE f[i]]

\* FileExt::read_at into a zeroed buffer of n bytes: a short read at the end
\* of the file leaves the rest of the buffer as it was
ReadAtBuf(f, n, pos) ==
    [i \in 1..n |-> IF pos + i <= Len(f) THEN f[pos + i] ELSE 0]

\* ------------------------------------------------------------------------
\* Index (index.rs)
\* ------------------------------------------------------------------------
OFFWIDTH == 4
POSWIDTH == 8
ENTWIDTH == OFFWIDTH + POSWIDTH

\* Index::new: the size is the file's length, the file is grown to
\* max_index_bytes and mapped; the map is the file (a shared mapping)
IndexNew(f, maxIndexBytes) ==
    [index |-> [size |-> Len(f)], file |-> SetLen(f, maxIndexBytes)]

\* a close that forgets to cut the pre-sized tail
IndexCloseNoTruncate(ixo, f) == f

\* Index::close: the file is cut to size
IndexClose(ixo, f) == SetLen(f, ixo.size)

\* Index::read
IndexRead(ixo, f, inp) ==
    IF ixo.size = 0 THEN [res |-> "eof", off |-> 0, pos |-> 0]
    ELSE LET out == IF inp = MinusOne THEN (ixo.size \div ENTWIDTH) - 1 ELSE AsU32(inp)
             p   == out * ENTWIDTH
         IN  IF ixo.size < p + ENTWIDTH
             THEN [res |-> "eof", off |-> 0, pos |-> 0]
             ELSE [res |-> "ok",
                   off |-> ReadBE(SubSeq(f, p + 1, p + OFFWIDTH)),
                   pos |-> ReadBE(SubSeq(f, p + OFFWIDTH + 1, p + ENTWIDTH))]

\* a write that checks the room for the entry against the map with <=
IndexWriteLooseCheck(ixo, f, off, pos) ==
    IF Len(f) <= ixo.size + ENTWIDTH
    THEN [res |-> "eof", index |-> ixo, file |-> f]
    ELSE [res |-> "ok",
          index |-> [ixo EXCEPT !.size = @ + ENTWIDTH],
          file |-> Splice(f, ixo.size, WriteU32(off) \o WriteU64(pos))]

\* Index::write
IndexWrite(ixo, f, off, pos) ==
    IF Len(f) < ixo.size + ENTWIDTH
    THEN [res |-> "eof", index |-> ixo, file |-> f]
    ELSE [res |-> "ok",
          index |-> [ixo EXCEPT !.size = @ + ENTWIDTH],
          file |-> Splice(f, ixo.size, WriteU32(off) \o WriteU64(pos))]

\* ------------------------------------------------------------------------
\* Record and its codec (prost::Message, generated from proto/log.proto)
\* ------------------------------------------------------------------------
RECURSIVE Varint(_)
Varint(n) == IF n < 128 THEN <<n>> ELSE <<128 + (n % 128)>> \o Varint(n \div 128)

\* Message::encode: field 1 (bytes value) and field 2 (uint64 offset), each
\* left out when it has its default value
Encode(rec) ==
    (IF Len(rec.value) > 0 THEN <<10>> \o Varint(Len(rec.value)) \o rec.value ELSE <<>>)
    \o (IF rec.offset # 0 THEN <<16>> \o Varint(rec.offset) ELSE <<>>)

RECURSIVE DecodeVarint(_, _)
DecodeVarint(b, i) ==
    IF i > Len(b) THEN [ok |-> FALSE, val |-> 0, next |-> i]
    ELSE IF b[i] < 128 THEN [ok |-> TRUE, val |-> b[i], next |-> i + 1]
    ELSE LET r == DecodeVarint(b, i + 1)
         IN  [ok |-> r.ok, val |-> (b[i] - 128) + 128 * r.val, next |-> r.next]

RECURSIVE DecodeFields(_, _, _)
DecodeFields(b, i, rec) ==
    IF i > Len(b) THEN [res |-> "ok", value |-> rec.value, offset |-> rec.offset]
    ELSE LET v == DecodeVarint(b, i + 1)
         IN  IF ~v.ok THEN [res |-> "decode", value |-> <<>>, offset |-> 0]
             ELSE IF b[i] = 10 /\ v.next + v.val - 1 <= Len(b)
             THEN DecodeFields(b, v.next + v.val,
                               [rec EXCEPT !.value = SubSeq(b, v.next, v.next + v.val - 1)])
             ELSE IF b[i] = 16
             THEN DecodeFields(b, v.next, [rec EXCEPT !.offset = v.val])
             ELSE [res |-> "decode", value |-> <<>>, offset |-> 0]

\* Message::decode
Decode(b) == DecodeFields(b, 1, [value |-> <<>>, offset |-> 0])

\* ------------------------------------------------------------------------
\* Store (store.rs)
\* ------------------------------------------------------------------------
LEN_WIDTH == 8

\* Store::new: wbuf is what the BufWriter holds and has not written yet
StoreNew(f) == [size |-> Len(f), offset |-> 0, wbuf |-> <<>>]

\* BufWriter::flush on a file opened for append
StoreFlush(st, f) == [store |-> [st EXCEPT !.wbuf = <<>>], file |-> f \o st.wbuf]

\* an append that counts the payload without its length prefix
StoreAppendPayloadWidth(st, p) ==
    LET w == Len(p)
    IN  [store |-> [st EXCEPT !.wbuf = @ \o WriteU64(Len(p)) \o p, !.size = @ + w],
         w |-> w, pos |-> st.size]

\* an append that returns the position after the frame instead of its start
StoreAppendEndPos(st, p) ==
    LET w == Len(p) + LEN_WIDTH
    IN  [store |-> [st EXCEPT !.wbuf = @ \o WriteU64(Len(p)) \o p, !.size = @ + w],
         w |-> w, pos |-> st.size + w]

\* Store::append
StoreAppend(st, p) ==
    LET w == Len(p) + LEN_WIDTH
    IN  [store |-> [st EXCEPT !.wbuf = @ \o WriteU64(Len(p)) \o p, !.size = @ + w],
         w |-> w, pos |-> st.size]

\* a read_at_offset that reads the file without flushing the writer first
StoreReadAtOffsetNoFlush(st, f, pos) ==
    LET len == ReadBE(ReadAtBuf(f, LEN_WIDTH, pos))
    IN  IF len > 0 /\ pos + LEN_WIDTH + len > Len(f)
        THEN [res |-> "eof", data |-> <<>>, store |-> st, file |-> f]
        ELSE [res |-> "ok", data |-> ReadAtBuf(f, len, pos + LEN_WIDTH),
              store |-> st, file |-> f]

\* Store::read_at_offset
StoreReadAtOffset(st, f, pos) ==
    LET fl  == StoreFlush(st, f)
        len == ReadBE(ReadAtBuf(fl.file, LEN_WIDTH, pos))
    IN  IF len > 0 /\ pos + LEN_WIDTH + len > Len(fl.file)
        THEN [res |-> "eof", data |-> <<>>, store |-> fl.store, file |-> fl.file]
        ELSE [res |-> "ok", data |-> ReadAtBuf(fl.file, len, pos + LEN_WIDTH),
              store |-> fl.store, file |-> fl.file]

\* Store::read_at: the length of the buffer is returned, whatever was read
StoreReadAt(st, f, n, offset) ==
    LET fl == StoreFlush(st, f)
    IN  [n |-> n, data |-> ReadAtBuf(fl.file, n, offset), store |-> fl.store, file |-> fl.file]

\* impl Read for Store
StoreRead(st, f, n) ==
    IF st.offset >= st.size
    THEN [n |-> 0, data |-> <<>>, store |-> st, file |-> f]
    ELSE LET r == StoreReadAt(st, f, n, st.offset)
         IN  [n |-> r.n, data |-> r.data,
              store |-> [r.store EXCEPT !.offset = @ + r.n], file |-> r.file]

\* Store::close
StoreClose(st, f) == StoreFlush(st, f).file

\* ------------------------------------------------------------------------
\* Config (config.rs) and the names of a segment's files
\* ------------------------------------------------------------------------
DefaultLimit == 1024

\* format!("{}", base_offset): the decimal digits, most significant first
RECURSIVE Digits(_)
Digits(n) == IF n < 10 THEN <<n>> ELSE Digits(n \div 10) \o <<n % 10>>

\* str::parse::<u64> of a file stem
RECURSIVE ParseU64(_)
ParseU64(d) ==
    IF Len(d) = 0 THEN 0 ELSE ParseU64(SubSeq(d, 1, Len(d) - 1)) * 10 + d[Len(d)]

\* ------------------------------------------------------------------------
\* The directory: a function from the names of its files to their bytes
\* ------------------------------------------------------------------------
StoreName(base) == <<Digits(base), "store">>
IndexName(base) == <<Digits(base), "index">>
\* OpenOptions::create(true).open: a missing file is created empty
OpenFile(files, name) == IF name \in DOMAIN files THEN files[name] ELSE <<>>
PutFile(files, name, bytes) == (name :> bytes) @@ files
RemoveFile(files, name) == [n \in (DOMAIN files) \ {name} |-> files[n]]
NoFiles == [n \in {} |-> <<>>]

\* ------------------------------------------------------------------------
\* Segment (segment.rs)
\* ------------------------------------------------------------------------
\* Segment::new
SegmentNew(files, base, c) ==
    LET sf   == OpenFile(files, StoreName(base))
        in   == IndexNew(OpenFile(files, IndexName(base)), c.max_index_bytes)
        last == IndexRead(in.index, in.file, MinusOne)
    IN  [seg |-> [store |-> Some(StoreNew(sf)),
                  index |-> Some(in.index),
                  base_offset |-> base,
                  next_offset |-> IF last.res = "ok" THEN base + last.off + 1 ELSE base],
         files |-> PutFile(PutFile(files, StoreName(base), sf), IndexName(base), in.file)]

\* an append that counts the offset before it looks for the store and index
SegmentAppendCountsFirst(seg, files, value) ==
    IF IsNone(seg.store) \/ IsNone(seg.index)
    THEN [res |-> "none", off |-> 0,
          seg |-> [seg EXCEPT !.next_offset = @ + 1], files |-> files]
    ELSE LET cur == seg.next_offset
             buf == Encode([value |-> value, offset |-> cur])
             sa  == StoreAppend(Unwrap(seg.store), buf)
             iw  == IndexWrite(Unwrap(seg.index), files[IndexName(seg.base_offset)],
                               seg.next_offset - seg.base_offset, sa.pos)
         IN  IF iw.res # "ok"
             THEN [res |-> iw.res, off |-> 0,
                   seg |-> [seg EXCEPT !.store = Some(sa.store)], files |-> files]
             ELSE [res |-> "ok", off |-> cur,
                   seg |-> [seg EXCEPT !.store = Some(sa.store),
                                       !.index = Some(iw.index),
                                       !.next_offset = @ + 1],
                   files |-> PutFile(files, IndexName(seg.base_offset), iw.file)]

\* Segment::append
SegmentAppend(seg, files, value) ==
    IF IsNone(seg.store) \/ IsNone(seg.index)
    THEN [res |-> "none", off |-> 0, seg |-> seg, files |-> files]
    ELSE LET cur == seg.next_offset
             buf == Encode([value |-> value, offset |-> cur])
             sa  == StoreAppend(Unwrap(seg.store), buf)
             iw  == IndexWrite(Unwrap(seg.index), files[IndexName(seg.base_offset)],
                               seg.next_offset - seg.base_offset, sa.pos)
         IN  IF iw.res # "ok"
             THEN [res |-> iw.res, off |-> 0,
                   seg |-> [seg EXCEPT !.store = Some(sa.store)], files |-> files]
             ELSE [res |-> "ok", off |-> cur,
                   seg |-> [seg EXCEPT !.store = Some(sa.store),
                                       !.index = Some(iw.index),
                                       !.next_offset = @ + 1],
                   files |-> PutFile(files, IndexName(seg.base_offset), iw.file)]

\* Segment::read_at_offset, for offset >= base_offset
SegmentReadAtOffset(seg, files, offset) ==
    IF IsNone(seg.store) \/ IsNone(seg.index)
    THEN [res |-> "none", value |-> <<>>, offset |-> 0, seg |-> seg, files |-> files]
    ELSE LET ir == IndexRead(Unwrap(seg.index), files[IndexName(seg.base_offset)],
                             I64(offset - seg.base_offset))
         IN  IF ir.res # "ok"
             THEN [res |-> ir.res, value |-> <<>>, offset |-> 0, seg |-> seg, files |-> files]
             ELSE LET sr  == StoreReadAtOffset(Unwrap(seg.store),
                                               files[StoreName(seg.base_offset)], ir.pos)
                      seg2 == [seg EXCEPT !.store = Some(sr.store)]
                      fs2  == PutFile(files, StoreName(seg.base_offset), sr.file)
                      rec  == Decode(sr.data)
                  IN  IF sr.res # "ok"
                      THEN [res |-> sr.res, value |-> <<>>, offset |-> 0,
                            seg |-> seg2, files |-> fs2]
                      ELSE [res |-> rec.res, value |-> rec.value, offset |-> rec.offset,
                            seg |-> seg2, files |-> fs2]

\* an is_maxed that looks at the index only
SegmentIsMaxedIndexOnly(seg, c) ==
    IF IsNone(seg.store) \/ IsNone(seg.index) THEN FALSE
    ELSE Unwrap(seg.index).size >= c.max_index_bytes

\* Segment::is_maxed
SegmentIsMaxed(seg, c) ==
    IF IsNone(seg.store) \/ IsNone(seg.index) THEN FALSE
    ELSE \/ Unwrap(seg.store).size >= c.max_store_bytes
         \/ Unwrap(seg.index).size >= c.max_index_bytes

\* Segment::close
SegmentClose(seg, files) ==
    LET f1 == IF IsSome(seg.index)
              THEN PutFile(files, IndexName(seg.base_offset),
                           IndexClose(Unwrap(seg.index), files[IndexName(seg.base_offset)]))
              ELSE files
        f2 == IF IsSome(seg.store)
              THEN PutFile(f1, StoreName(seg.base_offset),
                           StoreClose(Unwrap(seg.store), f1[StoreName(seg.base_offset)]))
              ELSE f1
    IN  [seg |-> [seg EXCEPT !.index = None, !.store = None], files |-> f2]

\* Segment::remove: remove_file fails on a file that is not there
SegmentRemove(seg, files) ==
    LET c == SegmentClose(seg, files)
    IN  IF IndexName(seg.base_offset) \notin DOMAIN c.files
        THEN [res |-> "io", seg |-> c.seg, files |-> c.files]
        ELSE IF StoreName(seg.base_offset) \notin DOMAIN c.files
        THEN [res |-> "io", seg |-> c.seg,
              files |-> RemoveFile(c.files, IndexName(seg.base_offset))]
        ELSE [res |-> "ok", seg |-> c.seg,
              files |-> RemoveFile(RemoveFile(c.files, IndexName(seg.base_offset)),
                                   StoreName(seg.base_offset))]

\* impl Read for Segment
SegmentRead(seg, files, n) ==
    IF IsNone(seg.store)
    THEN [n |-> 0, data |-> <<>>, seg |-> seg, files |-> files]
    ELSE LET r == StoreRead(Unwrap(seg.store), files[StoreName(seg.base_offset)], n)
         IN  [n |-> r.n, data |-> r.data,
              seg |-> [seg EXCEPT !.store = Some(r.store)],
              files |-> PutFile(files, StoreName(seg.base_offset), r.file)]

\* ------------------------------------------------------------------------
\* Log (log.rs).  A log is [config, active_segment, segments, reader_idx],
\* active_segment and reader_idx counting from 0 as in the code; a directory
\* is [exists, files].
\* ------------------------------------------------------------------------
\* the stems of the directory's files, parsed and sorted (sort_unstable)
RECURSIVE SortedStems(_)
SortedStems(names) ==
    IF names = {} THEN <<>>
    ELSE LET m == CHOOSE n \in names :
                     \A k \in names : ParseU64(n[1]) <= ParseU64(k[1])
         IN  <<ParseU64(m[1])>> \o SortedStems(names \ {m})

\* a setup that opens a segment for every file, not for every second one
StepBy1(q) == q

\* iter().step_by(2)
StepBy2(q) == [i \in 1..((Len(q) + 1) \div 2) |-> q[2 * i - 1]]

\* Log::new_segment
LogNewSegment(log, files, off) ==
    LET s == SegmentNew(files, off, log.config)
    IN  [log |-> [log EXCEPT !.segments = Append(@, Some(s.seg)),
                             !.active_segment = Len(log.segments)],
         files |-> s.files]

RECURSIVE OpenSegments(_, _, _, _)
OpenSegments(log, files, bases, i) ==
    IF i > Len(bases) THEN [log |-> log, files |-> files]
    ELSE LET r == LogNewSegment(log, files, bases[i])
         IN  OpenSegments(r.log, r.files, bases, i + 1)

\* Log::setup
LogSetup(log, d) ==
    IF ~d.exists THEN [res |-> "io", log |-> log, dir |-> d]
    ELSE LET bases == StepBy2(SortedStems(DOMAIN d.files))
             o     == OpenSegments(log, d.files, bases, 1)
             r     == IF Len(o.log.segments) = 0
                      THEN LogNewSegment(o.log, o.files, log.config.initial_offset)
                      ELSE o
         IN  [res |-> "ok", log |-> r.log, dir |-> [d EXCEPT !.files = r.files]]

\* Log::new
LogNew(d, c) ==
    LET c1 == IF c.max_store_bytes = 0 THEN [c EXCEPT !.max_store_bytes = DefaultLimit] ELSE c
        c2 == IF c1.max_index_bytes = 0 THEN [c1 EXCEPT !.max_index_bytes = DefaultLimit] ELSE c1
    IN  LogSetup([config |-> c2, active_segment |-> 0, segments |-> <<>>, reader_idx |-> 0], d)

\* a rollover that opens the new segment at the offset just assigned
LogRollAtAssigned(log, files, off) == LogNewSegment(log, files, off)

\* the rollover of Log::append: new_segment(offset + 1)
LogRoll(log, files, off) == LogNewSegment(log, files, off + 1)

\* Log::append
LogAppend(log, files, value) ==
    IF log.active_segment >= Len(log.segments)
    THEN [res |-> "panic", off |-> 0, log |-> log, files |-> files]
    ELSE IF IsNone(log.segments[log.active_segment + 1])
    THEN [res |-> "none", off |-> 0, log |-> log, files |-> files]
    ELSE LET a  == SegmentAppend(Unwrap(log.segments[log.active_segment + 1]), files, value)
             l1 == [log EXCEPT !.segments[log.active_segment + 1] = Some(a.seg)]
         IN  IF a.res # "ok"
             THEN [res |-> a.res, off |-> 0, log |-> l1, files |-> a.files]
             ELSE IF SegmentIsMaxed(a.seg, log.config)
             THEN LET r == LogRoll(l1, a.files, a.off)
                  IN  [res |-> "ok", off |-> a.off, log |-> r.log, files |-> r.files]
             ELSE [res |-> "ok", off |-> a.off, log |-> l1, files |-> a.files]

\* a range test that takes next_offset into the range
CoversInclusive(so, offset) ==
    IsSome(so) /\ Unwrap(so).base_offset <= offset /\ offset <= Unwrap(so).next_offset

\* the test of Log::read_at_offset's iter_mut().find(..)
Covers(so, offset) ==
    IsSome(so) /\ Unwrap(so).base_offset <= offset /\ offset < Unwrap(so).next_offset

FindSegment(log, offset) ==
    LET hits == {i \in 1..Len(log.segments) : Covers(log.segments[i], offset)}
    IN  IF hits = {} THEN 0 ELSE CHOOSE i \in hits : \A j \in hits : i <= j

\* Log::read_at_offset
LogReadAtOffset(log, files, offset) ==
    LET i == FindSegment(log, offset)
    IN  IF i = 0
        THEN [res |-> "range", value |-> <<>>, offset |-> 0, log |-> log, files |-> files]
        ELSE LET r == SegmentReadAtOffset(Unwrap(log.segments[i]), files, offset)
             IN  [res |-> r.res, value |-> r.value, offset |-> r.offset,
                  log |-> [log EXCEPT !.segments[i] = Some(r.seg)], files |-> r.files]

RECURSIVE CloseSegments(_, _, _)
CloseSegments(segs, files, i) ==
    IF i > Len(segs) THEN [segments |-> segs, files |-> files]
    ELSE IF IsNone(segs[i]) THEN CloseSegments(segs, files, i + 1)
    ELSE LET c == SegmentClose(Unwrap(segs[i]), files)
         IN  CloseSegments([segs EXCEPT ![i] = Some(c.seg)], c.files, i + 1)

\* Log::close
LogClose(log, files) ==
    LET c == CloseSegments(log.segments, files, 1)
    IN  [log |-> [log EXCEPT !.segments = c.segments, !.reader_idx = Len(log.segments)],
         files |-> c.files]

\* Log::remove
LogRemove(log, d) ==
    [log |-> LogClose(log, d.files).log, dir |-> [exists |-> FALSE, files |-> NoFiles]]

\* Log::reset
LogReset(log, d) ==
    LET r == LogRemove(log, d) IN LogSetup(r.log, r.dir)

\* Log::lowest_offset: indexing an empty list panics
LogLowestOffset(log) ==
    IF Len(log.segments) = 0 THEN [res |-> "panic", off |-> 0]
    ELSE IF IsSome(log.segments[1])
    THEN [res |-> "ok", off |-> Unwrap(log.segments[1]).base_offset]
    ELSE [res |-> "corrupt", off |-> 0]

\* a highest_offset that reports the next offset
LogHighestIsNext(log) ==
    IF Len(log.segments) = 0 THEN [res |-> "panic", off |-> 0]
    ELSE IF IsSome(log.segments[Len(log.segments)])
    THEN [res |-> "ok", off |-> Unwrap(log.segments[Len(log.segments)]).next_offset]
    ELSE [res |-> "corrupt", off |-> 0]

\* Log::highest_offset: last().unwrap() of an empty list panics
LogHighestOffset(log) ==
    IF Len(log.segments) = 0 THEN [res |-> "panic", off |-> 0]
    ELSE IF IsSome(log.segments[Len(log.segments)])
    THEN LET offset == Unwrap(log.segments[Len(log.segments)]).next_offset
         IN  [res |-> "ok", off |-> IF offset = 0 THEN 0 ELSE offset - 1]
    ELSE [res |-> "corrupt", off |-> 0]

\* a test that removes every segment that starts at or below lowest
TruncateRemovesByBase(seg, lowest) == seg.base_offset <= lowest

\* the test of Log::truncate for the segments to remove
TruncateRemoves(seg, lowest) == seg.next_offset <= lowest + 1

\* the loop of Log::truncate: every segment is taken out of its slot; when a
\* remove fails the call returns with the slots taken so far left empty (the
\* segments kept so far are dropped: they can only be closed ones, as a file
\* is missing only after Log::remove, which closes every segment)
RECURSIVE TruncateSegments(_, _, _, _, _)
TruncateSegments(segs, files, lowest, i, kept) ==
    IF i > Len(segs) THEN [res |-> "ok", segments |-> kept, files |-> files]
    ELSE IF IsNone(segs[i]) THEN TruncateSegments(segs, files, lowest, i + 1, kept)
    ELSE LET taken == [segs EXCEPT ![i] = None]
         IN  IF TruncateRemoves(Unwrap(segs[i]), lowest)
             THEN LET r == SegmentRemove(Unwrap(segs[i]), files)
                  IN  IF r.res # "ok"
                      THEN [res |-> r.res, segments |-> taken, files |-> r.files]
                      ELSE TruncateSegments(taken, r.files, lowest, i + 1, kept)
             ELSE TruncateSegments(taken, files, lowest, i + 1, Append(kept, segs[i]))

\* a truncate that deletes the files but keeps the removed segments listed
LogTruncateKeepsRemoved(log, files, lowest) ==
    LET t == TruncateSegments(log.segments, files, lowest, 1, <<>>)
        c == CloseSegments(log.segments, files, 1)
    IN  [res |-> t.res,
         log |-> [log EXCEPT !.reader_idx = 0,
                             !.segments = [i \in 1..Len(log.segments) |->
                                 IF /\ IsSome(log.segments[i])
                                    /\ TruncateRemoves(Unwrap(log.segments[i]), lowest)
                                 THEN c.segments[i] ELSE log.segments[i]]],
         files |-> t.files]

\* Log::truncate
LogTruncate(log, files, lowest) ==
    LET t == TruncateSegments(log.segments, files, lowest, 1, <<>>)
    IN  IF t.res = "ok"
        THEN [res |-> "ok",
              log |-> [log EXCEPT !.segments = t.segments, !.reader_idx = 0],
              files |-> t.files]
        ELSE [res |-> t.res, log |-> [log EXCEPT !.segments = t.segments],
              files |-> t.files]

\* impl Read for Log: the segment's read never fails with UnexpectedEof (the
\* store answers Ok(0) at its end), so only a None slot advances the cursor
RECURSIVE LogRead(_, _, _)
LogRead(log, files, n) ==
    IF log.reader_idx >= Len(log.segments)
    THEN [n |-> 0, data |-> <<>>, log |-> log, files |-> files]
    ELSE IF IsNone(log.segments[log.reader_idx + 1])
    THEN LogRead([log EXCEPT !.reader_idx = @ + 1], files, n)
    ELSE LET r == SegmentRead(Unwrap(log.segments[log.reader_idx + 1]), files, n)
         IN  [n |-> r.n, data |-> r.data,
              log |-> [log EXCEPT !.segments[log.reader_idx + 1] = Some(r.seg)],
              files |-> r.files]

\* ------------------------------------------------------------------------
\* State
\* ------------------------------------------------------------------------
VARIABLES
    \* the Index on its own
    ix,          \* Option<Index>
    ixFile,      \* the bytes of the index file
    ixMax,       \* config.max_index_bytes
    ixWritten,   \* the pairs written so far, in order
    ixRet,       \* the last call and what it returned
    \* the Segment on its own
    sg,          \* the Segment
    sgFiles,     \* the files of its directory
    sgCfg,       \* its Config
    sgAppended,  \* the values appended so far, in order
    sgTries,     \* the number of append calls
    sgRet,       \* the last call and what it returned
    \* the Log
    log,         \* the Log
    dir,         \* its directory
    assigned,    \* the [off, value] of the appends since the directory was empty
    truncated,   \* the offsets held by the segments truncate removed
    streamed,    \* Some(the bytes the streaming reads returned), None once
                 \* the pass is no longer one uninterrupted pass over a fresh Log
    tries,       \* the number of append calls
    ret,         \* the last call and what it returned
    \* the Store on its own
    st,          \* Option<Store>
    stFile,      \* the bytes of the store file
    stFrames,    \* the payloads of the frames the file held when first opened
    stAppended,  \* the [w, pos, p] of the appends so far, in order
    stCounts,    \* the streaming reads of this Store: the sum of the byte
                 \* counts they returned and whether the last returned 0
    stRet,       \* the last call and what it returned
    \* the in-memory log of the server and its handlers
    srvLog,      \* the records of server::log::Log
    srvLock,     \* the RwLock: its writer (0: none) and its readers
    srvPc,       \* where each handler is
    srvReq,      \* the request each handler is serving
    srvResp,     \* the response each handler gave last
    srvProduced, \* the [offset, value] of the produce responses, in order
    srvCount     \* the number of requests accepted so far

ixVars == <<ix, ixFile, ixMax, ixWritten, ixRet>>
sgVars == <<sg, sgFiles, sgCfg, sgAppended, sgTries, sgRet>>
logVars == <<log, dir, assigned, truncated, streamed, tries, ret>>
stVars == <<st, stFile, stFrames, stAppended, stCounts, stRet>>
srvVars == <<srvLog, srvLock, srvPc, srvReq, srvResp, srvProduced, srvCount>>
vars == <<ixVars, sgVars, logVars, stVars, srvVars>>

\* the record values appended
Values == {<<>>, <<7>>}

\* the values of the parts a specification leaves alone
IxIdle ==
    /\ ix = None
    /\ ixFile = <<>>
    /\ ixMax = 0
    /\ ixWritten = <<>>
    /\ ixRet = [op |-> "idle", res |-> "ok", off |-> 0, pos |-> 0]
SgIdle ==
    /\ sg = None
    /\ sgFiles = NoFiles
    /\ sgCfg = [max_store_bytes |-> 0, max_index_bytes |-> 0, initial_offset |-> 0]
    /\ sgAppended = <<>>
    /\ sgTries = 0
    /\ sgRet = [op |-> "idle", res |-> "ok", off |-> 0, value |-> <<>>]
LogIdle ==
    /\ log = None
    /\ dir = [exists |-> FALSE, files |-> NoFiles]
    /\ assigned = <<>>
    /\ truncated = {}
    /\ streamed = None
    /\ tries = 0
    /\ ret = [op |-> "idle", res |-> "ok", arg |-> 0, off |-> 0, value |-> <<>>]

StIdle ==
    /\ st = None
    /\ stFile = <<>>
    /\ stFrames = <<>>
    /\ stAppended = <<>>
    /\ stCounts = [sum |-> 0, done |-> FALSE]
    /\ stRet = [op |-> "idle", res |-> "ok", n |-> 0, pos |-> 0, data |-> <<>>]
SrvIdle ==
    /\ srvLog = <<>>
    /\ srvLock = [writer |-> 0, readers |-> {}]
    /\ srvPc = <<>>
    /\ srvReq = <<>>
    /\ srvResp = <<>>
    /\ srvProduced = <<>>
    /\ srvCount = 0

\* ------------------------------------------------------------------------
\* The Index on its own (index.rs, test_index)
\* ------------------------------------------------------------------------
\* the max_index_bytes the index is tried with: whole entries, and a size
\* that is no multiple of the entry width
IndexCaps == {ENTWIDTH * n : n \in 1..MaxEntries} \cup {ENTWIDTH * MaxEntries + 4}
\* the (relative offset, position) pairs written
IxOffsets == {0, 70000}
IxPositions == {0, 300}
\* the arguments read is called with
IxInputs ==
    {MinusOne} \cup {I64(i) : i \in 0..(MaxEntries + 1)} \cup {I64High(i) : i \in 0..1}

IxResult(op, r) == [op |-> op, res |-> r.res, off |-> r.off, pos |-> r.pos]

IxInit ==
    /\ ixMax \in IndexCaps
    /\ ix = Some(IndexNew(<<>>, ixMax).index)
    /\ ixFile = IndexNew(<<>>, ixMax).file
    /\ ixWritten = <<>>
    /\ ixRet = [op |-> "new", res |-> "ok", off |-> 0, pos |-> 0]
    /\ SgIdle
    /\ LogIdle
    /\ StIdle
    /\ SrvIdle

IxWrite(off, pos) ==
    /\ IsSome(ix)
    /\ LET r == IndexWrite(Unwrap(ix), ixFile, off, pos)
       IN  /\ ix' = Some(r.index)
           /\ ixFile' = r.file
           /\ ixWritten' = IF r.res = "ok" THEN Append(ixWritten, <<off, pos>>) ELSE ixWritten
           /\ ixRet' = [op |-> "write", res |-> r.res, off |-> off, pos |-> pos]
    /\ UNCHANGED <<ixMax, sgVars, logVars, stVars, srvVars>>

IxRead(inp) ==
    /\ IsSome(ix)
    /\ ixRet' = IxResult("read", IndexRead(Unwrap(ix), ixFile, inp))
    /\ UNCHANGED <<ix, ixFile, ixMax, ixWritten, sgVars, logVars, stVars, srvVars>>

IxClose ==
    /\ IsSome(ix)
    /\ ixFile' = IndexClose(Unwrap(ix), ixFile)
    /\ ix' = None
    /\ ixRet' = [op |-> "close", res |-> "ok", off |-> 0, pos |-> 0]
    /\ UNCHANGED <<ixMax, ixWritten, sgVars, logVars, stVars, srvVars>>

\* Index::new on the file of an index that was closed
IxOpen ==
    /\ IsNone(ix)
    /\ ix' = Some(IndexNew(ixFile, ixMax).index)
    /\ ixFile' = IndexNew(ixFile, ixMax).file
    /\ ixRet' = [op |-> "new", res |-> "ok", off |-> 0, pos |-> 0]
    /\ UNCHANGED <<ixMax, ixWritten, sgVars, logVars, stVars, srvVars>>

IxNext ==
    \/ \E off \in IxOffsets, pos \in IxPositions : IxWrite(off, pos)
    \/ \E inp \in IxInputs : IxRead(inp)
    \/ IxClose
    \/ IxOpen

SpecIndex == IxInit /\ [][IxNext]_vars

\* the entry the i-th write (counting from 0) stored, as read returns it
IxEntry(i) == [res |-> "ok", off |-> ixWritten[i + 1][1], pos |-> ixWritten[i + 1][2]]

\* C8: after any sequence of successful writes, read(i) returns the pair of
\* the i-th write for 0 <= i < number of entries, read(-1) returns the pair
\* of the last write, every read of an index with no entries fails with
\* unexpected-end-of-file, and read(i) for i >= number of entries fails with
\* unexpected-end-of-file.
C8_IndexRoundTrip ==
    IsSome(ix) =>
        LET n == Len(ixWritten)
        IN  \A inp \in IxInputs :
                LET r == IndexRead(Unwrap(ix), ixFile, inp)
                IN  /\ (n = 0 => r.res = "eof")
                    /\ (n > 0 /\ inp = MinusOne => r = IxEntry(n - 1))
                    /\ \A i \in 0..(n - 1) : inp = I64(i) => r = IxEntry(i)
                    /\ (I64AtLeast(inp, n) => r.res = "eof")

\* C8, for the arguments below 2^32 only: the round trip and the failures of
\* the claim hold when the argument survives the cast to u32.
C8_IndexRoundTripBelowWrap ==
    IsSome(ix) =>
        LET n == Len(ixWritten)
        IN  \A inp \in IxInputs :
                LET r == IndexRead(Unwrap(ix), ixFile, inp)
                IN  /\ (n = 0 => r.res = "eof")
                    /\ (n > 0 /\ inp = MinusOne => r = IxEntry(n - 1))
                    /\ \A i \in 0..(MaxEntries + 1) :
                          inp = I64(i) => r = IF i < n THEN IxEntry(i)
                                               ELSE [res |-> "eof", off |-> 0, pos |-> 0]

\* C9: after Index.close the index file is 12 x (entries written) bytes long,
\* not the pre-sized max_index_bytes; an Index opened afterwards on the file
\* recovers that size, and read(-1) returns the last entry written.
C9_CloseCutsIndexFile ==
    /\ IsNone(ix) => Len(ixFile) = ENTWIDTH * Len(ixWritten)
    /\ (IsSome(ix) /\ ixRet.op = "new") =>
          /\ Unwrap(ix).size = ENTWIDTH * Len(ixWritten)
          /\ Len(ixWritten) > 0 =>
                IndexRead(Unwrap(ix), ixFile, MinusOne) = IxEntry(Len(ixWritten) - 1)

\* an index reopened after a close that left fewer entries than the file is
\* pre-sized for
C9_Witness ==
    /\ IsSome(ix)
    /\ ixRet.op = "new"
    /\ Len(ixWritten) >= 2
    /\ ENTWIDTH * Len(ixWritten) < ixMax

\* ------------------------------------------------------------------------
\* The Segment on its own (segment.rs, test_segment)
\* ------------------------------------------------------------------------
\* the base offsets and limits the segment is tried with
SgBases == {0, 16}
SgConfigs ==
    [max_store_bytes : {24, DefaultLimit},
     max_index_bytes : {ENTWIDTH * n : n \in 1..MaxEntries} \cup {ENTWIDTH * MaxEntries + 4},
     initial_offset : {0}]

SgInit ==
    /\ sgCfg \in SgConfigs
    /\ \E b \in SgBases :
          /\ sg = SegmentNew(NoFiles, b, sgCfg).seg
          /\ sgFiles = SegmentNew(NoFiles, b, sgCfg).files
    /\ sgAppended = <<>>
    /\ sgTries = 0
    /\ sgRet = [op |-> "new", res |-> "ok", off |-> 0, value |-> <<>>]
    /\ IxIdle
    /\ LogIdle
    /\ StIdle
    /\ SrvIdle

SgAppend(v) ==
    /\ sgTries < MaxSegAppends
    /\ LET r == SegmentAppend(sg, sgFiles, v)
       IN  /\ sg' = r.seg
           /\ sgFiles' = r.files
           /\ sgAppended' = IF r.res = "ok" THEN Append(sgAppended, v) ELSE sgAppended
           /\ sgRet' = [op |-> "append", res |-> r.res, off |-> r.off, value |-> v]
    /\ sgTries' = sgTries + 1
    /\ UNCHANGED <<sgCfg, ixVars, logVars, stVars, srvVars>>

SgReadAtOffset(off) ==
    /\ LET r == SegmentReadAtOffset(sg, sgFiles, off)
       IN  /\ sg' = r.seg
           /\ sgFiles' = r.files
           /\ sgRet' = [op |-> "read", res |-> r.res, off |-> off, value |-> r.value]
    /\ UNCHANGED <<sgCfg, sgAppended, sgTries, ixVars, logVars, stVars, srvVars>>

SgClose ==
    /\ sg' = SegmentClose(sg, sgFiles).seg
    /\ sgFiles' = SegmentClose(sg, sgFiles).files
    /\ sgRet' = [op |-> "close", res |-> "ok", off |-> 0, value |-> <<>>]
    /\ UNCHANGED <<sgCfg, sgAppended, sgTries, ixVars, logVars, stVars, srvVars>>

\* Segment::new on the files of a segment that was closed
SgReopen ==
    /\ IsNone(sg.store) /\ IsNone(sg.index)
    /\ sg' = SegmentNew(sgFiles, sg.base_offset, sgCfg).seg
    /\ sgFiles' = SegmentNew(sgFiles, sg.base_offset, sgCfg).files
    /\ sgRet' = [op |-> "new", res |-> "ok", off |-> 0, value |-> <<>>]
    /\ UNCHANGED <<sgCfg, sgAppended, sgTries, ixVars, logVars, stVars, srvVars>>

SgNext ==
    \/ \E v \in Values : SgAppend(v)
    \/ \E k \in 0..MaxEntries : SgReadAtOffset(sg.base_offset + k)
    \/ SgClose
    \/ SgReopen

SpecSegment == SgInit /\ [][SgNext]_vars

SgOpen == IsSome(sg.store) /\ IsSome(sg.index)

\* C10: for a segment with base offset b, max_index_bytes = 12*n and a store
\* limit that is not reached, exactly n appends succeed, returning b, b+1,
\* ..., b+n-1 in order; the (n+1)-th append fails with unexpected-end-of-file
\* and leaves next_offset unchanged; is_maxed is false before the n-th append
\* and true after it.
C10_IndexLimitsSegment ==
    LET n == sgCfg.max_index_bytes \div ENTWIDTH
        k == Len(sgAppended)
    IN  (/\ sgCfg.max_index_bytes = ENTWIDTH * n
         /\ SgOpen
         /\ Unwrap(sg.store).size < sgCfg.max_store_bytes) =>
            /\ k <= n
            /\ sg.next_offset = sg.base_offset + k
            /\ SegmentIsMaxed(sg, sgCfg) <=> (k = n)
            /\ sgRet.op = "append" =>
                  /\ sgRet.res \in {"ok", "eof"}
                  /\ sgRet.res = "ok" => sgRet.off = sg.base_offset + k - 1
                  /\ sgRet.res = "eof" => k = n

\* the fourth append to a segment whose index takes three entries has failed
C10_Witness ==
    /\ sgCfg.max_index_bytes = ENTWIDTH * 3
    /\ SgOpen
    /\ Unwrap(sg.store).size < sgCfg.max_store_bytes
    /\ sgRet.op = "append"
    /\ sgRet.res = "eof"
    /\ Len(sgAppended) = 3
    /\ sg.base_offset = 16
    /\ SegmentIsMaxed(sg, sgCfg)

\* ------------------------------------------------------------------------
\* The Log (log.rs, test_log)
\* ------------------------------------------------------------------------
\* the configurations the log is opened with: a zero store limit stands for
\* the default; an index of one entry rolls on every append, a store of 16
\* bytes rolls on the store, an index of 16 bytes is no whole number of entries
LogConfigs ==
    { [max_store_bytes |-> 0,  max_index_bytes |-> ENTWIDTH,     initial_offset |-> 0],
      [max_store_bytes |-> 16, max_index_bytes |-> 3 * ENTWIDTH, initial_offset |-> 1],
      [max_store_bytes |-> 0,  max_index_bytes |-> ENTWIDTH + 4, initial_offset |-> 2] }
\* the lengths of the buffers the streaming read is given
StreamBufs == {LEN_WIDTH, 4 * LEN_WIDTH}
EmptyDir == [exists |-> TRUE, files |-> NoFiles]

Result(op, arg, res, off, value) ==
    [op |-> op, arg |-> arg, res |-> res, off |-> off, value |-> value]

\* a panic ends the run
Running == ret.res # "panic"
LogClosed ==
    \A i \in 1..Len(log.segments) :
        IsSome(log.segments[i]) =>
            IsNone(Unwrap(log.segments[i]).store) /\ IsNone(Unwrap(log.segments[i]).index)
LogOpen ==
    \A i \in 1..Len(log.segments) :
        IsSome(log.segments[i]) /\ IsSome(Unwrap(log.segments[i]).store)
                                /\ IsSome(Unwrap(log.segments[i]).index)

Init ==
    /\ \E c \in LogConfigs :
          /\ log = LogNew(EmptyDir, c).log
          /\ dir = LogNew(EmptyDir, c).dir
    /\ assigned = <<>>
    /\ truncated = {}
    /\ streamed = Some(<<>>)
    /\ tries = 0
    /\ ret = Result("new", 0, "ok", 0, <<>>)
    /\ IxIdle
    /\ SgIdle
    /\ StIdle
    /\ SrvIdle

AppendRecord(v) ==
    /\ Running
    /\ tries < MaxAppends
    /\ LET r == LogAppend(log, dir.files, v)
       IN  /\ log' = r.log
           /\ dir' = [dir EXCEPT !.files = r.files]
           /\ assigned' = IF r.res = "ok"
                          THEN Append(assigned, [off |-> r.off, value |-> v])
                          ELSE assigned
           /\ ret' = Result("append", 0, r.res, r.off, v)
    /\ tries' = tries + 1
    /\ streamed' = IF streamed = Some(<<>>) THEN streamed ELSE None
    /\ UNCHANGED <<truncated, ixVars, sgVars, stVars, srvVars>>

ReadAtOffset(x) ==
    /\ Running
    /\ LET r == LogReadAtOffset(log, dir.files, x)
       IN  /\ log' = r.log
           /\ dir' = [dir EXCEPT !.files = r.files]
           /\ ret' = Result("read", 0, r.res, 0, r.value)
    /\ UNCHANGED <<assigned, truncated, streamed, tries, ixVars, sgVars, stVars, srvVars>>

Close ==
    /\ Running
    /\ log' = LogClose(log, dir.files).log
    /\ dir' = [dir EXCEPT !.files = LogClose(log, dir.files).files]
    /\ ret' = Result("close", 0, "ok", 0, <<>>)
    /\ streamed' = None
    /\ UNCHANGED <<assigned, truncated, tries, ixVars, sgVars, stVars, srvVars>>

\* Log::new on the directory and with the config of a log that was closed
Reopen ==
    /\ Running
    /\ LogClosed
    /\ LET r == LogNew(dir, log.config)
       IN  IF r.res = "ok"
           THEN /\ log' = r.log
                /\ dir' = r.dir
                /\ ret' = Result("new", 0, "ok", 0, <<>>)
                /\ streamed' = Some(<<>>)
                /\ IF DOMAIN dir.files = {}
                   THEN assigned' = <<>> /\ truncated' = {}
                   ELSE UNCHANGED <<assigned, truncated>>
           ELSE /\ ret' = Result("new", 0, r.res, 0, <<>>)
                /\ UNCHANGED <<log, dir, streamed, assigned, truncated>>
    /\ UNCHANGED <<tries, ixVars, sgVars, stVars, srvVars>>

\* the offsets held by the segments whose files truncate(lowest) deletes
RemovedOffsets(lowest) ==
    LET left == DOMAIN LogTruncate(log, dir.files, lowest).files
    IN  UNION { (Unwrap(log.segments[i]).base_offset)..(Unwrap(log.segments[i]).next_offset - 1) :
                i \in {j \in 1..Len(log.segments) :
                          /\ IsSome(log.segments[j])
                          /\ StoreName(Unwrap(log.segments[j]).base_offset) \in DOMAIN dir.files
                          /\ StoreName(Unwrap(log.segments[j]).base_offset) \notin left} }

Truncate(lowest) ==
    /\ Running
    /\ log' = LogTruncate(log, dir.files, lowest).log
    /\ dir' = [dir EXCEPT !.files = LogTruncate(log, dir.files, lowest).files]
    /\ truncated' = truncated \cup RemovedOffsets(lowest)
    /\ ret' = Result("truncate", lowest, LogTruncate(log, dir.files, lowest).res, 0, <<>>)
    /\ streamed' = None
    /\ UNCHANGED <<assigned, tries, ixVars, sgVars, stVars, srvVars>>

StreamRead(n) ==
    /\ Running
    /\ LET r == LogRead(log, dir.files, n)
       IN  /\ log' = r.log
           /\ dir' = [dir EXCEPT !.files = r.files]
           /\ ret' = Result("stream", 0, "ok", r.n, <<>>)
           /\ streamed' = IF IsSome(streamed) THEN Some(Unwrap(streamed) \o r.data) ELSE None
    /\ UNCHANGED <<assigned, truncated, tries, ixVars, sgVars, stVars, srvVars>>

Remove ==
    /\ Running
    /\ log' = LogRemove(log, dir).log
    /\ dir' = LogRemove(log, dir).dir
    /\ ret' = Result("remove", 0, "ok", 0, <<>>)
    /\ streamed' = None
    /\ assigned' = <<>>
    /\ truncated' = {}
    /\ UNCHANGED <<tries, ixVars, sgVars, stVars, srvVars>>

Reset ==
    /\ Running
    /\ log' = LogReset(log, dir).log
    /\ dir' = LogReset(log, dir).dir
    /\ ret' = Result("reset", 0, LogReset(log, dir).res, 0, <<>>)
    /\ streamed' = None
    /\ assigned' = <<>>
    /\ truncated' = {}
    /\ UNCHANGED <<tries, ixVars, sgVars, stVars, srvVars>>

Next ==
    \/ \E v \in Values : AppendRecord(v)
    \/ \E x \in 0..MaxOffset : ReadAtOffset(x)
    \/ Close
    \/ Reopen
    \/ \E k \in 0..MaxOffset : Truncate(k)
    \/ \E n \in StreamBufs : StreamRead(n)
    \/ Remove
    \/ Reset

Spec == Init /\ [][Next]_vars

\* the segments of the log as [base_offset, next_offset] pairs, in order
SegRanges(l) ==
    [i \in 1..Len(l.segments) |->
        IF IsSome(l.segments[i])
        THEN <<Unwrap(l.segments[i]).base_offset, Unwrap(l.segments[i]).next_offset>>
        ELSE <<>>]
LastSegment == Unwrap(log.segments[Len(log.segments)])

\* C1: on an open log, after any sequence of successful appends (rolling
\* over into several segments or not), read_at_offset(k) returns, for every
\* assigned offset k that no truncate removed, a record whose value is the
\* value appended at k.
C1_ReadReturnsAppended ==
    LogOpen =>
        \A i \in 1..Len(assigned) :
            assigned[i].off \notin truncated =>
                LET r == LogReadAtOffset(log, dir.files, assigned[i].off)
                IN  r.res = "ok" /\ r.value = assigned[i].value

\* appends that rolled the log over twice, and a read that returned the
\* record of the second segment
C1_Witness ==
    /\ LogOpen
    /\ Len(assigned) >= 2
    /\ Len(log.segments) >= 3
    /\ truncated = {}
    /\ assigned[2].value = <<7>>
    /\ FindSegment(log, assigned[2].off) = 2
    /\ ret.op = "read"
    /\ ret.res = "ok"
    /\ ret.value = <<7>>

\* C2: the first append to a fresh log returns config.initial_offset and
\* every later successful append the previous offset + 1; when an append
\* leaves the segment it wrote to maxed, a new segment with base_offset =
\* next_offset = assigned offset + 1 has been opened after it and is the
\* active segment, otherwise the segment written to stays the active one.
C2_OffsetsConsecutive ==
    /\ \A i \in 1..Len(assigned) : assigned[i].off = log.config.initial_offset + (i - 1)
    /\ (ret.op = "append" /\ ret.res = "ok") =>
          LET n == Len(log.segments)
              i == FindSegment(log, ret.off)
          IN  /\ i > 0
              /\ log.active_segment = n - 1
              /\ IF SegmentIsMaxed(Unwrap(log.segments[i]), log.config)
                 THEN /\ i = n - 1
                      /\ LastSegment.base_offset = ret.off + 1
                      /\ LastSegment.next_offset = ret.off + 1
                 ELSE i = n

\* the second append of a log that starts at offset 1 has rolled the log over
C2_Witness ==
    /\ ret.op = "append"
    /\ ret.res = "ok"
    /\ log.config.initial_offset = 1
    /\ Len(assigned) >= 2
    /\ Len(log.segments) >= 2
    /\ ret.off = 2
    /\ LastSegment.base_offset = 3
    /\ LastSegment.next_offset = 3

\* C3: after every successful append, highest_offset returns the offset the
\* append was assigned, whether the append rolled the log over or not.
C3_HighestIsAssigned ==
    (ret.op = "append" /\ ret.res = "ok") =>
        LogHighestOffset(log) = [res |-> "ok", off |-> ret.off]

\* an append that rolled over to a new, empty active segment
C3_Witness ==
    /\ ret.op = "append"
    /\ ret.res = "ok"
    /\ ret.off > 0
    /\ Len(log.segments) >= 2
    /\ LastSegment.base_offset = LastSegment.next_offset

\* C4: read_at_offset(x) fails with the offset-out-of-range error whenever no
\* segment's range [base_offset, next_offset) contains x, and leaves the log
\* and its files as they were; every read of a log without records fails.
C4_OutOfRangeRead ==
    \A x \in 0..MaxOffset :
        LET r == LogReadAtOffset(log, dir.files, x)
            held == \E i \in 1..Len(log.segments) :
                        /\ IsSome(log.segments[i])
                        /\ Unwrap(log.segments[i]).base_offset <= x
                        /\ x < Unwrap(log.segments[i]).next_offset
        IN  /\ ~held => (r.res = "range" /\ r.log = log /\ r.files = dir.files)
            /\ (\A i \in 1..Len(log.segments) :
                    IsSome(log.segments[i]) =>
                        Unwrap(log.segments[i]).base_offset = Unwrap(log.segments[i]).next_offset)
                  => r.res = "range"

\* a read of an open log that holds records was refused as out of range
C4_Witness ==
    /\ ret.op = "read"
    /\ ret.res = "range"
    /\ LogOpen
    /\ Len(assigned) >= 2
    /\ Len(log.segments) >= 2

\* C5: close of a log that reports its offsets leaves lowest_offset and
\* highest_offset as they were, and a Log
\* opened afterwards on the same directory with the same config reports the
\* same lowest_offset and highest_offset, every segment reopened with the
\* base_offset and next_offset it had.
C5_ReopenKeepsOffsets ==
    [][ (ret'.op \in {"close", "new"} /\ ret'.res = "ok" /\ LogLowestOffset(log).res = "ok") =>
            /\ LogLowestOffset(log') = LogLowestOffset(log)
            /\ LogHighestOffset(log') = LogHighestOffset(log)
            /\ SegRanges(log') = SegRanges(log) ]_vars

\* a log of several segments reopened after its appends and a close
C5_Witness ==
    /\ ret.op = "new"
    /\ ret.res = "ok"
    /\ LogOpen
    /\ Len(assigned) >= 2
    /\ truncated = {}
    /\ Len(log.segments) >= 2
    /\ LogLowestOffset(log) = [res |-> "ok", off |-> log.config.initial_offset]
    /\ LogHighestOffset(log) = [res |-> "ok", off |-> assigned[Len(assigned)].off]

\* C6: after truncate(k) on an open log, read_at_offset(j) fails for every j
\* held by a removed segment (each such j is <= k), and every record with an
\* offset > k that lies in a surviving segment is still returned with the
\* value it was appended with.
C6_TruncateRemovesPrefix ==
    (ret.op = "truncate" /\ ret.res = "ok" /\ LogOpen) =>
        /\ \A j \in truncated :
              LogReadAtOffset(log, dir.files, j).res = "range"
        /\ \A i \in 1..Len(assigned) :
              (/\ assigned[i].off > ret.arg
               /\ assigned[i].off \notin truncated
               /\ FindSegment(log, assigned[i].off) > 0) =>
                  LET r == LogReadAtOffset(log, dir.files, assigned[i].off)
                  IN  r.res = "ok" /\ r.value = assigned[i].value

\* a truncate that removed a segment holding offsets <= k and left a segment
\* holding a record above k
C6_Witness ==
    /\ ret.op = "truncate"
    /\ ret.res = "ok"
    /\ LogOpen
    /\ truncated # {}
    /\ \A j \in truncated : j <= ret.arg
    /\ \E i \in 1..Len(assigned) :
          /\ assigned[i].off > ret.arg
          /\ assigned[i].value = <<7>>
          /\ FindSegment(log, assigned[i].off) > 0

\* the bytes of every segment's store, buffered frames included, in segment
\* order
RECURSIVE AllStoreBytes(_)
AllStoreBytes(i) ==
    IF i > Len(log.segments) THEN <<>>
    ELSE LET g == Unwrap(log.segments[i])
         IN  dir.files[StoreName(g.base_offset)]
             \o (IF IsSome(g.store) THEN Unwrap(g.store).wbuf ELSE <<>>)
             \o AllStoreBytes(i + 1)

\* C7: reading a freshly opened Log until read returns 0 yields the raw store
\* bytes of every segment concatenated in segment order: when 0 is returned
\* the bytes returned so far begin with the bytes of every segment's store
\* (read counts a call's whole buffer as read, so the last call on a segment
\* may add bytes past the store's end; the claim is stated up to that tail).
C7_StreamYieldsAllSegments ==
    (ret.op = "stream" /\ ret.off = 0 /\ IsSome(streamed)) =>
        /\ Len(Unwrap(streamed)) >= Len(AllStoreBytes(1))
        /\ SubSeq(Unwrap(streamed), 1, Len(AllStoreBytes(1))) = AllStoreBytes(1)

\* ------------------------------------------------------------------------
\* The limits of a segment (Segment::is_maxed, Log::append)
\* ------------------------------------------------------------------------
\* the segments of the log that hold their store and index
OpenSegs ==
    {i \in 1..Len(log.segments) :
        /\ IsSome(log.segments[i])
        /\ IsSome(Unwrap(log.segments[i]).store)
        /\ IsSome(Unwrap(log.segments[i]).index)}
SegStore(i) == Unwrap(Unwrap(log.segments[i]).store)
SegIndex(i) == Unwrap(Unwrap(log.segments[i]).index)
SegIndexFile(i) == dir.files[IndexName(Unwrap(log.segments[i]).base_offset)]

C12_EmptyListIsCorruptError ==
    (Running /\ Len(log.segments) = 0) =>
        /\ LogLowestOffset(log).res = "corrupt"
        /\ LogHighestOffset(log).res = "corrupt"

\* C13: in every state reached after a successful Log::new by append and
\* truncate calls, the segment list is non-empty and active_segment is the
\* index of its last element.
C13_ActiveIsLast ==
    (Running /\ ret.op \in {"new", "append", "truncate"} /\ ret.res = "ok") =>
        /\ Len(log.segments) >= 1
        /\ log.active_segment = Len(log.segments) - 1

\* ------------------------------------------------------------------------
\* The frames of a store and the entries of an index
\* ------------------------------------------------------------------------
\* the number of length-prefixed frames in the bytes b from position pos on
RECURSIVE FrameCount(_, _)
FrameCount(b, pos) ==
    IF pos + LEN_WIDTH > Len(b) THEN 0
    ELSE 1 + FrameCount(b, pos + LEN_WIDTH + ReadBE(SubSeq(b, pos + 1, pos + LEN_WIDTH)))

\* the frames of the segment's store, those the writer still buffers included
SgFrames == FrameCount(sgFiles[StoreName(sg.base_offset)] \o Unwrap(sg.store).wbuf, 0)
SgEntries == Unwrap(sg.index).size \div ENTWIDTH

\* C14: in every reachable state of a segment next_offset - base_offset, the
\* number of index entries and the number of frames in the store (buffered
\* ones included) are equal: an append raises all three by one, or returns
\* an error and leaves all three as they were.
C14_AppendAllOrNothing ==
    SgOpen =>
        /\ sg.next_offset - sg.base_offset = SgEntries
        /\ SgEntries = SgFrames

\* ------------------------------------------------------------------------
\* Appends and the room in the index
\* ------------------------------------------------------------------------
\* C15: an append on a log that has not been closed is never rejected with
\* unexpected-end-of-file: when the active segment's index has no room for
\* one more entry the log has already rolled over, for every max_index_bytes
\* >= 12, the ones that are no multiple of 12 included.
C15_AppendNeverRejected ==
    (ret.op = "append" /\ log.config.max_index_bytes >= ENTWIDTH) => ret.res # "eof"

\* ------------------------------------------------------------------------
\* The Index abandoned without close (index.rs)
\* ------------------------------------------------------------------------
\* the Index is dropped without close (there is no Drop for it: the map is
\* unmapped, the entries written through the shared map stay in the file,
\* and the file keeps its pre-sized length)
IxAbandon ==
    /\ IsSome(ix)
    /\ ix' = None
    /\ ixRet' = [op |-> "drop", res |-> "ok", off |-> 0, pos |-> 0]
    /\ UNCHANGED <<ixFile, ixMax, ixWritten, sgVars, logVars, stVars, srvVars>>

IxCrashNext ==
    \/ \E off \in IxOffsets, pos \in IxPositions : IxWrite(off, pos)
    \/ \E inp \in IxInputs : IxRead(inp)
    \/ IxClose
    \/ IxOpen
    \/ IxAbandon

SpecIndexCrash == IxInit /\ [][IxCrashNext]_vars

\* C16: an Index opened on the file of an index that had n entries written
\* and was abandoned without close recovers size = 12 * n, its read(-1)
\* returns the n-th written entry (or fails when nothing was written), and
\* no bytes of the pre-sized tail are decoded as an entry.
C16_RecoveredSizeIsWritten ==
    IsSome(ix) =>
        LET n == Len(ixWritten)
            r == IndexRead(Unwrap(ix), ixFile, MinusOne)
        IN  /\ Unwrap(ix).size = ENTWIDTH * n
            /\ r = IF n > 0 THEN IxEntry(n - 1) ELSE [res |-> "eof", off |-> 0, pos |-> 0]
            /\ IndexRead(Unwrap(ix), ixFile, I64(n)).res = "eof"

\* ------------------------------------------------------------------------
\* The order of the segments (Log::append, Log::setup, Log::new_segment)
\* ------------------------------------------------------------------------
\* C17: the segments are ordered by ascending base_offset and their ranges
\* are contiguous and do not overlap: base_offset <= next_offset in each, and
\* for each adjacent pair the earlier segment's next_offset is the later
\* segment's base_offset.  Stated for the logs no truncate has touched, after
\* appends and rollovers and after a close and a reopen.
C17_SegmentsContiguous ==
    truncated = {} /\ ret.op # "truncate" /\ (\A i \in 1..Len(log.segments) : IsSome(log.segments[i])) =>
        /\ \A i \in 1..Len(log.segments) :
              Unwrap(log.segments[i]).base_offset <= Unwrap(log.segments[i]).next_offset
        /\ \A i \in 1..(Len(log.segments) - 1) :
              /\ Unwrap(log.segments[i]).next_offset = Unwrap(log.segments[i + 1]).base_offset
              /\ Unwrap(log.segments[i]).base_offset < Unwrap(log.segments[i + 1]).base_offset

\* a log of three segments, two of them holding a record, reopened after a close
C17_Witness ==
    /\ ret.op = "new"
    /\ LogOpen
    /\ truncated = {}
    /\ Len(assigned) >= 2
    /\ Len(log.segments) >= 3
    /\ Unwrap(log.segments[2]).base_offset < Unwrap(log.segments[2]).next_offset

\* ------------------------------------------------------------------------
\* Log::reset
\* ------------------------------------------------------------------------
\* C18: reset returns success and leaves the log as a log newly created in
\* an empty directory: one open, empty segment with base_offset = next_offset
\* = config.initial_offset, which is the active segment.
C18_ResetLeavesFreshLog ==
    ret.op = "reset" =>
        /\ ret.res = "ok"
        /\ Len(log.segments) = 1
        /\ LogOpen
        /\ log.active_segment = 0
        /\ LastSegment.base_offset = log.config.initial_offset
        /\ LastSegment.next_offset = log.config.initial_offset
        /\ dir.exists

\* ------------------------------------------------------------------------
\* The closed log (Segment::close, Log::close, Log::remove)
\* ------------------------------------------------------------------------
\* a log whose segments have all been closed
ClosedLog ==
    /\ Len(log.segments) >= 1
    /\ \A i \in 1..Len(log.segments) :
          /\ IsSome(log.segments[i])
          /\ IsNone(Unwrap(log.segments[i]).store)
          /\ IsNone(Unwrap(log.segments[i]).index)

\* on a closed log a read of a covered offset returns the empty result and no
\* segment is maxed
ClosedReadsEmpty ==
    ClosedLog =>
        /\ \A x \in 0..MaxOffset :
              FindSegment(log, x) > 0 =>
                  LogReadAtOffset(log, dir.files, x) =
                      [res |-> "none", value |-> <<>>, offset |-> 0,
                       log |-> log, files |-> dir.files]
        /\ \A i \in 1..Len(log.segments) :
              ~SegmentIsMaxed(Unwrap(log.segments[i]), log.config)

\* an append to a closed log assigns no offset and changes neither the log
\* nor its files: it returns the empty result where the active segment is
\* there to be asked
ClosedAppendIsNoOp ==
    (ClosedLog /\ ret'.op = "append") =>
        /\ ret'.res \in {"none", "panic"}
        /\ log.active_segment < Len(log.segments) => ret'.res = "none"
        /\ log' = log
        /\ dir' = dir
        /\ assigned' = assigned
        /\ SegRanges(log') = SegRanges(log)
        /\ LogLowestOffset(log') = LogLowestOffset(log)
        /\ LogHighestOffset(log') = LogHighestOffset(log)

\* C19: after the log (each of its segments) has been closed or removed,
\* append assigns no offset, writes nothing to store or index and leaves
\* next_offset, lowest_offset and highest_offset unchanged; read_at_offset
\* of a covered offset returns an empty result instead of a record, and
\* is_maxed is false.
C19_ClosedLogTakesNothing == [](ClosedReadsEmpty) /\ [][ClosedAppendIsNoOp]_vars

\* an append to a closed log of several segments that holds records
C19_Witness ==
    /\ ClosedLog
    /\ ret.op = "append"
    /\ ret.res = "none"
    /\ Len(assigned) >= 1
    /\ Len(log.segments) >= 2
    /\ DOMAIN dir.files # {}

\* ------------------------------------------------------------------------
\* What Log::truncate removes
\* ------------------------------------------------------------------------
\* the slots of the list that hold a segment reaching above offset k
Survives(s, k) == IsSome(s) /\ Unwrap(s).next_offset > k + 1
Survivors(l, k) == SelectSeq(l.segments, LAMBDA s : Survives(s, k))
\* the names of the files of the segments that do not reach above offset k
DoomedFiles(l, k) ==
    UNION { {StoreName(Unwrap(l.segments[i]).base_offset),
             IndexName(Unwrap(l.segments[i]).base_offset)} :
            i \in {j \in 1..Len(l.segments) :
                      IsSome(l.segments[j]) /\ ~Survives(l.segments[j], k)} }

TruncateRemovesExactly ==
    (ret'.op = "truncate" /\ ret'.res = "ok") =>
        LET k == ret'.arg
        IN  /\ log'.segments = Survivors(log, k)
            /\ DOMAIN dir'.files = (DOMAIN dir.files) \ DoomedFiles(log, k)
            /\ \A n \in DOMAIN dir'.files : dir'.files[n] = dir.files[n]
            /\ \A i \in 1..Len(log.segments) :
                  (IsSome(log.segments[i]) /\ Unwrap(log.segments[i]).next_offset - 1 > k)
                      => \E j \in 1..Len(log'.segments) : log'.segments[j] = log.segments[i]
            /\ Len(log'.segments) >= 1 =>
                  LogLowestOffset(log') =
                      [res |-> "ok", off |-> Unwrap(Survivors(log, k)[1]).base_offset]
            /\ log'.reader_idx = 0
            /\ log'.config = log.config

\* C20: truncate(lowest) removes exactly the segments whose next_offset <=
\* lowest + 1: no segment holding an offset above lowest is removed, the
\* surviving segments keep their order, base_offset and next_offset,
\* lowest_offset afterwards is the base_offset of the first surviving
\* segment, and the streaming cursor is 0.
C20_TruncateRemovesExactly == [][TruncateRemovesExactly]_vars

\* a truncate that removed the first segment of a log and left two, the
\* first of them holding a record
C20_Witness ==
    /\ ret.op = "truncate"
    /\ ret.res = "ok"
    /\ truncated # {}
    /\ Len(log.segments) >= 2
    /\ LogOpen
    /\ log.reader_idx = 0
    /\ Unwrap(log.segments[1]).base_offset = ret.arg + 1
    /\ Unwrap(log.segments[1]).next_offset > Unwrap(log.segments[1]).base_offset

\* ------------------------------------------------------------------------
\* The Store on its own (store.rs, test_store_append_read)
\* ------------------------------------------------------------------------
\* the payloads appended, the frames a file holds when first opened, and the
\* lengths of the buffers the streaming read is given
StPayloads == {<<>>, <<7>>, <<1, 2>>}
StInitialFrames == {<<>>, << <<5>> >>}
StBufs == {3, LEN_WIDTH}

\* the bytes of the frames of the payloads ps
RECURSIVE FramesOf(_)
FramesOf(ps) ==
    IF Len(ps) = 0 THEN <<>>
    ELSE WriteU64(Len(Head(ps))) \o Head(ps) \o FramesOf(Tail(ps))

NoCounts == [sum |-> 0, done |-> FALSE]

StResult(op, res, n, pos, data) ==
    [op |-> op, res |-> res, n |-> n, pos |-> pos, data |-> data]

StInit ==
    /\ stFrames \in StInitialFrames
    /\ stFile = FramesOf(stFrames)
    /\ st = Some(StoreNew(FramesOf(stFrames)))
    /\ stAppended = <<>>
    /\ stCounts = NoCounts
    /\ stRet = StResult("new", "ok", 0, 0, <<>>)
    /\ IxIdle
    /\ SgIdle
    /\ LogIdle
    /\ SrvIdle

StAppend(p) ==
    /\ IsSome(st)
    /\ Len(stAppended) < MaxStoreAppends
    /\ LET r == StoreAppend(Unwrap(st), p)
       IN  /\ st' = Some(r.store)
           /\ stAppended' = Append(stAppended, [w |-> r.w, pos |-> r.pos, p |-> p])
           /\ stRet' = StResult("append", "ok", r.w, r.pos, p)
    /\ UNCHANGED <<stFile, stFrames, stCounts, ixVars, sgVars, logVars, srvVars>>

\* Store::read_at_offset at a position an append returned; n of the result is
\* the number of bytes the writer still held when the call was made
StReadAtOffset ==
    /\ IsSome(st)
    /\ \E i \in 1..Len(stAppended) :
          LET pos == stAppended[i].pos
              r   == StoreReadAtOffset(Unwrap(st), stFile, pos)
          IN  /\ st' = Some(r.store)
              /\ stFile' = r.file
              /\ stRet' = StResult("read_at_offset", r.res, Len(Unwrap(st).wbuf), pos, r.data)
    /\ UNCHANGED <<stFrames, stAppended, stCounts, ixVars, sgVars, logVars, srvVars>>

\* impl Read for Store, with a buffer of n bytes; the reader stops at the
\* first read that returns 0 and goes on once more has been appended; pos of
\* the result is the cursor the call started from
StRead(n) ==
    /\ IsSome(st)
    /\ Unwrap(st).offset >= Unwrap(st).size => ~stCounts.done
    /\ LET r == StoreRead(Unwrap(st), stFile, n)
       IN  /\ st' = Some(r.store)
           /\ stFile' = r.file
           /\ stCounts' = [sum |-> stCounts.sum + r.n, done |-> r.n = 0]
           /\ stRet' = StResult("read", "ok", r.n, Unwrap(st).offset, r.data)
    /\ UNCHANGED <<stFrames, stAppended, ixVars, sgVars, logVars, srvVars>>

StClose ==
    /\ IsSome(st)
    /\ stFile' = StoreClose(Unwrap(st), stFile)
    /\ st' = None
    /\ stRet' = StResult("close", "ok", 0, 0, <<>>)
    /\ UNCHANGED <<stFrames, stAppended, stCounts, ixVars, sgVars, logVars, srvVars>>

\* Store::new on the file, after a close or once the writes are flushed
StOpen ==
    /\ IF IsNone(st) THEN TRUE ELSE Unwrap(st).wbuf = <<>>
    /\ st' = Some(StoreNew(stFile))
    /\ stCounts' = NoCounts
    /\ stRet' = StResult("new", "ok", 0, 0, <<>>)
    /\ UNCHANGED <<stFile, stFrames, stAppended, ixVars, sgVars, logVars, srvVars>>

StNext ==
    \/ \E p \in StPayloads : StAppend(p)
    \/ StReadAtOffset
    \/ \E n \in StBufs : StRead(n)
    \/ StClose
    \/ StOpen

SpecStore == StInit /\ [][StNext]_vars

\* the payloads of the first k appends
StPayloadsUpTo(k) == [j \in 1..k |-> stAppended[j].p]

\* C21: append of a payload of length len returns (8 + len, p) with p the
\* size before the call and advances size by 8 + len: every returned
\* position is the sum of 8 + length over all earlier frames, those the file
\* held when the store was opened included, and size is the file's length
\* once the writer is flushed.
C21_AppendReturnsWidthAndPosition ==
    /\ \A i \in 1..Len(stAppended) :
          /\ stAppended[i].w = LEN_WIDTH + Len(stAppended[i].p)
          /\ stAppended[i].pos = Len(FramesOf(stFrames \o StPayloadsUpTo(i - 1)))
    /\ IsSome(st) =>
          /\ Unwrap(st).size = Len(FramesOf(stFrames \o StPayloadsUpTo(Len(stAppended))))
          /\ Unwrap(st).size = Len(stFile) + Len(Unwrap(st).wbuf)
          /\ Len(StoreFlush(Unwrap(st), stFile).file) = Unwrap(st).size
    /\ stRet.op = "append" =>
          /\ stRet.n = stAppended[Len(stAppended)].w
          /\ stRet.pos = Unwrap(st).size - stRet.n

\* the second append to a store opened on a file that held a frame
C21_Witness ==
    /\ stRet.op = "append"
    /\ Len(stFrames) = 1
    /\ Len(stAppended) = 2
    /\ stAppended[1].p # <<>>
    /\ stRet.pos > LEN_WIDTH + 1


\* what read_at_offset(pos) returns from a Store newly opened on the file f
ReopenedRead(f, pos) == StoreReadAtOffset(StoreNew(f), f, pos)

\* C22: for every position p that append returned for a payload v,
\* read_at_offset(p) returns exactly v: when the append is still in the write
\* buffer (the read flushes first), and from a new Store opened on the same
\* file once the writer is flushed or the store closed.
C22_StoreRoundTrip ==
    /\ \A i \in 1..Len(stAppended) :
          /\ IsSome(st) =>
                LET r == StoreReadAtOffset(Unwrap(st), stFile, stAppended[i].pos)
                    f == StoreFlush(Unwrap(st), stFile).file
                IN  /\ r.res = "ok"
                    /\ r.data = stAppended[i].p
                    /\ ReopenedRead(f, stAppended[i].pos).res = "ok"
                    /\ ReopenedRead(f, stAppended[i].pos).data = stAppended[i].p
          /\ IsNone(st) =>
                /\ ReopenedRead(stFile, stAppended[i].pos).res = "ok"
                /\ ReopenedRead(stFile, stAppended[i].pos).data = stAppended[i].p
    /\ stRet.op = "read_at_offset" =>
          /\ stRet.res = "ok"
          /\ \E i \in 1..Len(stAppended) :
                stAppended[i].pos = stRet.pos /\ stAppended[i].p = stRet.data
          /\ Unwrap(st).wbuf = <<>>

\* a read of a non-empty payload whose append was still in the write buffer,
\* behind a frame the file already held
C22_Witness ==
    /\ stRet.op = "read_at_offset"
    /\ stRet.n > 0
    /\ stRet.pos > 0
    /\ stRet.data = <<1, 2>>
    /\ Len(stFrames) = 1


\* C23: a streaming read returns the number of bytes read from the file at
\* the cursor and advances the cursor by it: the count never reaches past the
\* end of the store, the cursor never exceeds size, and the counts of the
\* reads up to the one that returns 0 sum to exactly size.
C23_StreamReadCountsBytesRead ==
    IsSome(st) =>
        /\ Unwrap(st).offset <= Unwrap(st).size
        /\ stRet.op = "read" =>
              /\ stRet.n <= Unwrap(st).size - stRet.pos
              /\ Unwrap(st).offset = stRet.pos + stRet.n
        /\ (stRet.op = "read" /\ stRet.n = 0) => stCounts.sum = Unwrap(st).size


\* ------------------------------------------------------------------------
\* Log::setup on the directories the engine leaves behind
\* ------------------------------------------------------------------------
\* a sorted sequence without its repetitions
RECURSIVE Dedup(_)
Dedup(q) ==
    IF Len(q) <= 1 THEN q
    ELSE IF q[1] = q[2] THEN Dedup(Tail(q))
    ELSE <<q[1]>> \o Dedup(Tail(q))

\* the distinct base offsets among the names of the files, ascending
BaseOffsets(files) == Dedup(SortedStems(DOMAIN files))

\* the base offsets a file of which is missing
HalfBases(files) ==
    {ParseU64(n[1]) : n \in {k \in DOMAIN files :
        StoreName(ParseU64(k[1])) \notin DOMAIN files
            \/ IndexName(ParseU64(k[1])) \notin DOMAIN files}}

\* no base offset of the directory lacks a file
PairsComplete == HalfBases(dir.files) = {}


\* the configs a log is opened with, first and on the directory left behind:
\* every index holds one entry, so that every append opens a new segment
SetupConfigs ==
    { [max_store_bytes |-> 0, max_index_bytes |-> ENTWIDTH, initial_offset |-> 0],
      [max_store_bytes |-> 0, max_index_bytes |-> ENTWIDTH, initial_offset |-> 1] }

SetupInit ==
    /\ \E c \in SetupConfigs :
          /\ log = LogNew(EmptyDir, c).log
          /\ dir = LogNew(EmptyDir, c).dir
    /\ assigned = <<>>
    /\ truncated = {}
    /\ streamed = None
    /\ tries = 0
    /\ ret = Result("setup", 0, "ok", 0, <<>>)
    /\ IxIdle
    /\ SgIdle
    /\ StIdle
    /\ SrvIdle

\* the process is gone: no Log is left, the directory is as files; tries
\* counts these stops with the appends
Stopped(op, files) ==
    /\ tries <= MaxAppends
    /\ log' = None
    /\ dir' = [dir EXCEPT !.files = files]
    /\ ret' = Result(op, 0, "ok", 0, <<>>)
    /\ tries' = tries + 1
    /\ UNCHANGED <<assigned, truncated, streamed, ixVars, sgVars, stVars, srvVars>>

SetupAppend(v) ==
    /\ log # None
    /\ AppendRecord(v)

\* Log::close, then the Log is dropped
SetupClose ==
    /\ log # None
    /\ Stopped("close", LogClose(log, dir.files).files)

\* Log::append interrupted in the Segment::new of its rollover, between the
\* creation of the store file and the creation of the index file
CreateInterrupted(v) ==
    /\ log # None
    /\ LET r == LogAppend(log, dir.files, v)
       IN  /\ r.res = "ok"
           /\ Len(r.log.segments) > Len(log.segments)
           /\ Stopped("create", RemoveFile(r.files, IndexName(r.off + 1)))

\* the segments Log::truncate(lowest) removes
Doomed(lowest) ==
    {i \in 1..Len(log.segments) :
        IsSome(log.segments[i]) /\ TruncateRemoves(Unwrap(log.segments[i]), lowest)}

\* Log::truncate(lowest) interrupted in the Segment::remove of a segment j,
\* between the removal of the index file and the removal of the store file;
\* the segments to remove before j are gone with both their files
SegmentRemoveInterrupted(lowest) ==
    /\ log # None
    /\ \E j \in Doomed(lowest) :
          LET sj   == Unwrap(log.segments[j])
              cj   == SegmentClose(sj, dir.files).files
              gone == {StoreName(Unwrap(log.segments[i]).base_offset) :
                          i \in {k \in Doomed(lowest) : k < j}}
                      \cup {IndexName(Unwrap(log.segments[i]).base_offset) :
                          i \in {k \in Doomed(lowest) : k <= j}}
          IN  /\ IndexName(sj.base_offset) \in DOMAIN dir.files
              /\ Stopped("segment_remove", [n \in (DOMAIN cj) \ gone |-> cj[n]])

\* Log::remove interrupted in remove_dir_all, which unlinks the files one by
\* one in the order the directory lists them: some files, keep, are left
LogRemoveInterrupted ==
    /\ log # None
    /\ \E keep \in (SUBSET (DOMAIN dir.files)) \ {{}, DOMAIN dir.files} :
          LET c == LogClose(log, dir.files).files
          IN  Stopped("remove", [n \in keep |-> c[n]])

\* Log::new on the directory left behind; the result carries the base offsets
\* the directory named and the number of them that lacked a file
Setup(c) ==
    /\ log = None
    /\ LET r == LogNew(dir, c)
       IN  /\ log' = r.log
           /\ dir' = r.dir
           /\ ret' = Result("setup", Cardinality(HalfBases(dir.files)), r.res, 0,
                            BaseOffsets(dir.files))
    /\ assigned' = <<>>
    /\ truncated' = {}
    /\ UNCHANGED <<streamed, tries, ixVars, sgVars, stVars, srvVars>>

SetupNext ==
    \/ \E v \in Values : SetupAppend(v)
    \/ SetupClose
    \/ \E v \in Values : CreateInterrupted(v)
    \/ \E k \in 0..MaxOffset : SegmentRemoveInterrupted(k)
    \/ LogRemoveInterrupted
    \/ \E c \in SetupConfigs : Setup(c)

SpecSetup == SetupInit /\ [][SetupNext]_vars

\* the base offsets of the segments of the log, in the order of the list
SegmentBases ==
    [i \in 1..Len(log.segments) |->
        IF IsSome(log.segments[i]) THEN Unwrap(log.segments[i]).base_offset ELSE MinusOne]

\* C24: setup opens exactly one segment per distinct base offset among the
\* names of the directory's files, in ascending numeric order, and makes the
\* one with the highest base offset active, on every directory the engine
\* leaves behind, those with a base offset that has lost one of its two files
\* to an interrupted remove or create included.
C24_SetupOpensEveryBase ==
    (log # None /\ ret.op = "setup" /\ ret.res = "ok" /\ ret.value # <<>>) =>
        /\ SegmentBases = ret.value
        /\ log.active_segment = Len(log.segments) - 1

\* the same on the directories where at most one base offset lacks a file
C24_SetupOpensEveryBaseOneHalf ==
    (log # None /\ ret.op = "setup" /\ ret.res = "ok" /\ ret.value # <<>> /\ ret.arg <= 1) =>
        /\ SegmentBases = ret.value
        /\ log.active_segment = Len(log.segments) - 1
        /\ PairsComplete

\* a setup on a directory with exactly one base offset that lacked a file
SetupOneHalf ==
    log # None /\ ret.op = "setup" /\ ret.res = "ok" /\ ret.arg = 1 /\ Len(ret.value) >= 2


\* ------------------------------------------------------------------------
\* The in-memory log of the server (server/log.rs) behind the RwLock of the
\* router (server/router.rs).  A handler runs: take the lock, call the log,
\* build the response, return (the guard is dropped at the return).
\* Log::append is taken statement by statement: the lock, not the model, is
\* what keeps two appends apart.
\* ------------------------------------------------------------------------
Handlers == {1, 2}
SrvValues == {<<>>, <<7>>}
SrvOffsets == 0..MaxRequests
NoRecord == [value |-> <<>>, offset |-> 0]
NoResponse == [kind |-> "none", status |-> "none", offset |-> 0, record |-> NoRecord]

\* ProduceRequest: the offset of its record is not deserialized, it is 0;
\* ConsumeRequest: an offset
SrvRequests ==
    {[kind |-> "produce", record |-> [value |-> v, offset |-> 0], offset |-> 0] : v \in SrvValues}
    \cup {[kind |-> "consume", record |-> NoRecord, offset |-> o] : o \in SrvOffsets}

\* Log::read
ServerLogRead(records, offset) ==
    IF offset >= Len(records)
    THEN [res |-> "ErrOffsetNotFound", record |-> NoRecord]
    ELSE [res |-> "ok", record |-> records[offset + 1]]

\* a write lock that waits for the readers only, not for another writer
WriteLockIgnoresWriter(lock) == lock.readers = {}

\* RwLock::write returns when no guard is out
WriteLockFree(lock) == lock.writer = 0 /\ lock.readers = {}

\* RwLock::read returns when no write guard is out
ReadLockFree(lock) == lock.writer = 0

SrvInit ==
    /\ srvLog = <<>>
    /\ srvLock = [writer |-> 0, readers |-> {}]
    /\ srvPc = [h \in Handlers |-> "idle"]
    /\ srvReq = [h \in Handlers |-> CHOOSE r \in SrvRequests : r.kind = "consume" /\ r.offset = 0]
    /\ srvResp = [h \in Handlers |-> NoResponse]
    /\ srvProduced = <<>>
    /\ srvCount = 0
    /\ IxIdle
    /\ SgIdle
    /\ LogIdle
    /\ StIdle

\* the router hands a request to a handler
SrvReceive(h, req) ==
    /\ srvPc[h] = "idle"
    /\ srvCount < MaxRequests
    /\ srvCount' = srvCount + 1
    /\ srvReq' = [srvReq EXCEPT ![h] = req]
    /\ srvResp' = [srvResp EXCEPT ![h] = NoResponse]
    /\ srvPc' = [srvPc EXCEPT ![h] = req.kind]
    /\ UNCHANGED <<srvLog, srvLock, srvProduced, ixVars, sgVars, logVars, stVars>>

\* handle_produce: state.write()
ProduceLock(h) ==
    /\ srvPc[h] = "produce"
    /\ WriteLockFree(srvLock)
    /\ srvLock' = [srvLock EXCEPT !.writer = h]
    /\ srvPc' = [srvPc EXCEPT ![h] = "append"]
    /\ UNCHANGED <<srvLog, srvReq, srvResp, srvProduced, srvCount, ixVars, sgVars, logVars, stVars>>

\* Log::append: offset = records.len(); record.offset = offset
ProduceOffset(h) ==
    /\ srvPc[h] = "append"
    /\ srvReq' = [srvReq EXCEPT ![h].offset = Len(srvLog), ![h].record.offset = Len(srvLog)]
    /\ srvPc' = [srvPc EXCEPT ![h] = "push"]
    /\ UNCHANGED <<srvLog, srvLock, srvResp, srvProduced, srvCount, ixVars, sgVars, logVars, stVars>>

\* Log::append: records.push(record); Ok(offset); the response is built
ProducePush(h) ==
    /\ srvPc[h] = "push"
    /\ srvLog' = Append(srvLog, srvReq[h].record)
    /\ srvProduced' = Append(srvProduced, [handler |-> h, before |-> Len(srvLog),
                                           offset |-> srvReq[h].offset,
                                           value |-> srvReq[h].record.value])
    /\ srvResp' = [srvResp EXCEPT ![h] = [kind |-> "produce", status |-> "ok",
                                          offset |-> srvReq[h].offset, record |-> NoRecord]]
    /\ srvPc' = [srvPc EXCEPT ![h] = "produced"]
    /\ UNCHANGED <<srvLock, srvReq, srvCount, ixVars, sgVars, logVars, stVars>>

\* handle_produce returns: the write guard is dropped
ProduceReturn(h) ==
    /\ srvPc[h] = "produced"
    /\ srvLock' = [srvLock EXCEPT !.writer = 0]
    /\ srvPc' = [srvPc EXCEPT ![h] = "idle"]
    /\ UNCHANGED <<srvLog, srvReq, srvResp, srvProduced, srvCount, ixVars, sgVars, logVars, stVars>>

\* handle_consume: state.read()
ConsumeLock(h) ==
    /\ srvPc[h] = "consume"
    /\ ReadLockFree(srvLock)
    /\ srvLock' = [srvLock EXCEPT !.readers = @ \cup {h}]
    /\ srvPc' = [srvPc EXCEPT ![h] = "read"]
    /\ UNCHANGED <<srvLog, srvReq, srvResp, srvProduced, srvCount, ixVars, sgVars, logVars, stVars>>

\* handle_consume: log.read(req.offset) and the response, NOT_FOUND on
\* ErrOffsetNotFound
ConsumeRead(h) ==
    /\ srvPc[h] = "read"
    /\ LET r == ServerLogRead(srvLog, srvReq[h].offset)
       IN  srvResp' = [srvResp EXCEPT ![h] =
                          [kind |-> "consume",
                           status |-> IF r.res = "ok" THEN "ok" ELSE "not_found",
                           offset |-> srvReq[h].offset, record |-> r.record]]
    /\ srvPc' = [srvPc EXCEPT ![h] = "consumed"]
    /\ UNCHANGED <<srvLog, srvLock, srvReq, srvProduced, srvCount, ixVars, sgVars, logVars, stVars>>

\* handle_consume returns: the read guard is dropped
ConsumeReturn(h) ==
    /\ srvPc[h] = "consumed"
    /\ srvLock' = [srvLock EXCEPT !.readers = @ \ {h}]
    /\ srvPc' = [srvPc EXCEPT ![h] = "idle"]
    /\ UNCHANGED <<srvLog, srvReq, srvResp, srvProduced, srvCount, ixVars, sgVars, logVars, stVars>>

SrvNext ==
    \/ \E h \in Handlers : \E req \in SrvRequests : SrvReceive(h, req)
    \/ \E h \in Handlers : ProduceLock(h)
    \/ \E h \in Handlers : ProduceOffset(h)
    \/ \E h \in Handlers : ProducePush(h)
    \/ \E h \in Handlers : ProduceReturn(h)
    \/ \E h \in Handlers : ConsumeLock(h)
    \/ \E h \in Handlers : ConsumeRead(h)
    \/ \E h \in Handlers : ConsumeReturn(h)

SpecServer == SrvInit /\ [][SrvNext]_vars

\* C25: under every interleaving of the produce and consume handlers that
\* share the RwLock-protected log, each produce is given the offset equal to
\* the number of records appended before it (the offsets are distinct and
\* without gaps), the record stored at an offset never changes, and
\* consume(offset) returns the record produced at that offset when offset is
\* below the number of records and the offset-not-found error otherwise.
C25_ServerLogUnderConcurrency ==
    /\ Len(srvLog) = Len(srvProduced)
    /\ \A k \in 1..Len(srvProduced) :
          /\ srvProduced[k].offset = k - 1
          /\ srvProduced[k].offset = srvProduced[k].before
          /\ srvLog[k] = [value |-> srvProduced[k].value, offset |-> k - 1]
    /\ \A h \in Handlers :
          /\ srvResp[h].kind = "produce" =>
                /\ srvResp[h].offset < Len(srvProduced)
                /\ srvProduced[srvResp[h].offset + 1].handler = h
                /\ srvProduced[srvResp[h].offset + 1].value = srvReq[h].record.value
          /\ (srvResp[h].kind = "consume" /\ srvResp[h].status = "ok") =>
                /\ srvResp[h].offset < Len(srvProduced)
                /\ srvResp[h].record = [value |-> srvProduced[srvResp[h].offset + 1].value,
                                        offset |-> srvResp[h].offset]
          /\ srvPc[h] = "consumed" =>
                /\ srvResp[h].kind = "consume"
                /\ srvResp[h].offset = srvReq[h].offset
                /\ (srvResp[h].status = "ok") = (srvReq[h].offset < Len(srvLog))
                /\ (srvResp[h].status = "not_found") = (srvReq[h].offset >= Len(srvLog))

\* two handlers both in a produce, after the second handler's earlier produce
\* took offset 0: the first holds the write lock and has been given offset 1,
\* the second waits for the lock
C25_Witness ==
    /\ Len(srvLog) = 2
    /\ srvPc[1] = "produced"
    /\ srvResp[1].offset = 1
    /\ srvProduced[1].handler = 2
    /\ srvPc[2] = "produce"

====
